---------------------------- MODULE Spec2Model ----------------------------
(***************************************************************************)
(* Model of the patient-monitor firmware simulation                        *)
(* (src/22017751_EmirDulger.c): the PWM mapper, the alarm evaluator and    *)
(* the stream processor in main().                                         *)
(***************************************************************************)
EXTENDS Integers, Sequences, FiniteSets, TLC

(***************************************************************************)
(* Hardware configuration and alarm masks (#define lines 25-33).           *)
(***************************************************************************)
TIMER_RELOAD_VAL == 1000
MAX_HR_LIMIT == 200
STATUS_NORMAL == 0
STATUS_WARNING == 21845
STATUS_CRITICAL == 43690
STATUS_FAILURE == 65535
SECOND_MARK == 1000
DUTY_DIVISOR == 10

(***************************************************************************)
(* Bounds of the model.                                                    *)
(***************************************************************************)
MaxInput == 203        \* inputs of the function checks: -MaxNegInput..MaxInput
MaxNegInput == 3
MaxRecords == 2500     \* longest stream of records the stream processor is run on
VariedLines == 2       \* leading lines of a file that may be blank or malformed

(***************************************************************************)
(* IEEE-754 binary64 arithmetic, as far as compute_pwm_register needs it.  *)
(* A positive double is [m |-> bits, e |-> exponent]: m is the 53-bit      *)
(* significand, most significant bit first (m[1] = 1), and the value is    *)
(* m * 2^(e - 52).  A significand does not fit a 32-bit integer, so it is  *)
(* kept as a bit sequence.                                                 *)
(***************************************************************************)
SignificandBits == 53

\* bits + 1, same length, for a bit string that is not all ones: the last 0
\* becomes 1 and the ones after it become 0
IncBits(b) ==
    LET z == CHOOSE i \in 1..Len(b) : b[i] = 0 /\ \A j \in (i + 1)..Len(b) : b[j] = 1
    IN  [i \in 1..Len(b) |-> IF i < z THEN b[i] ELSE IF i = z THEN 1 ELSE 0]

AllOnes(b) == \A i \in 1..Len(b) : b[i] = 1

\* variant of RoundNearestEven: the bits beyond the significand are dropped
\* (rounding toward zero)
RoundTowardZero(b, sticky, e) == [m |-> SubSeq(b, 1, SignificandBits), e |-> e]

\* round-to-nearest, ties-to-even of the bit string b (value b * 2^(e - (Len(b)-1)),
\* b[1] = 1, Len(b) >= 53) followed by a sticky flag, to a double
RoundNearestEven(b, sticky, e) ==
    LET keep == SubSeq(b, 1, SignificandBits)
        rest == SubSeq(b, SignificandBits + 1, Len(b))
        roundBit == IF Len(rest) > 0 THEN rest[1] ELSE 0
        st == sticky \/ \E i \in 2..Len(rest) : rest[i] = 1
        up == roundBit = 1 /\ (st \/ keep[SignificandBits] = 1)
    IN  IF ~up THEN [m |-> keep, e |-> e]
        ELSE IF AllOnes(keep)
             THEN [m |-> <<1>> \o [i \in 1..(SignificandBits - 1) |-> 0], e |-> e + 1]
             ELSE [m |-> IncBits(keep), e |-> e]

RECURSIVE QuotientBits(_, _, _)
\* the next n bits of the binary expansion of r/d (0 <= r < d), with the
\* remainder left after them: <<bits, remainder>>.  Long division, one bit
\* per step; the steps are grouped in halves to keep the evaluation shallow.
QuotientBits(r, d, n) ==
    IF n = 0 THEN <<(<<>>), r>>
    ELSE IF n = 1
    THEN LET bit == IF 2 * r >= d THEN 1 ELSE 0
         IN  <<(<<bit>>), 2 * r - bit * d>>
    ELSE LET first == QuotientBits(r, d, n \div 2)
             second == QuotientBits(first[2], d, n - n \div 2)
         IN  <<first[1] \o second[1], second[2]>>

RECURSIVE Normalise(_, _, _)
\* scales n/d into [1, 2): <<n', d', e>> with n/d = (n'/d') * 2^e
Normalise(n, d, e) ==
    IF n < d THEN Normalise(2 * n, d, e - 1)
    ELSE IF n >= 2 * d THEN Normalise(n, 2 * d, e + 1)
    ELSE <<n, d, e>>

\* the double n / d for integers n > 0, d > 0 that are themselves doubles
DoubleDiv(n, d) ==
    LET s == Normalise(n, d, 0)
        q == QuotientBits(s[1] - s[2], s[2], SignificandBits)
    IN  RoundNearestEven(<<1>> \o q[1], q[2] # 0, s[3])

RECURSIVE NatToBits(_)
NatToBits(n) == IF n = 0 THEN <<>> ELSE NatToBits(n \div 2) \o <<n % 2>>

Reverse(b) == [i \in 1..Len(b) |-> b[Len(b) + 1 - i]]

RECURSIVE TimesSmallLsb(_, _, _)
\* b * k + carry for a small integer k and a bit string b given least
\* significant bit first, as <<the low Len(b) bits (least significant first),
\* the rest>>: schoolbook multiplication, the carry running upwards
TimesSmallLsb(b, k, carry) ==
    IF Len(b) = 0 THEN <<(<<>>), carry>>
    ELSE IF Len(b) = 1
    THEN LET v == b[1] * k + carry IN <<(<<v % 2>>), v \div 2>>
    ELSE LET h == Len(b) \div 2
             low == TimesSmallLsb(SubSeq(b, 1, h), k, carry)
             high == TimesSmallLsb(SubSeq(b, h + 1, Len(b)), k, low[2])
         IN  <<low[1] \o high[1], high[2]>>

\* the bit string of b * k, most significant bit first, without leading zeros
TimesSmall(b, k) ==
    LET p == TimesSmallLsb(Reverse(b), k, 0) IN NatToBits(p[2]) \o Reverse(p[1])

\* the double x * k for a double x > 0 and an integer k > 0 that is a double
DoubleMul(x, k) ==
    LET p == TimesSmall(x.m, k)
    IN  RoundNearestEven(p, FALSE, x.e + (Len(p) - SignificandBits))

RECURSIVE BitsToInt(_)
BitsToInt(b) ==
    IF Len(b) = 0 THEN 0 ELSE 2 * BitsToInt(SubSeq(b, 1, Len(b) - 1)) + b[Len(b)]

\* (int)x for a double x > 0 below 2^31: the fraction is discarded
DoubleToInt(x) ==
    IF x.e < 0 THEN 0 ELSE BitsToInt(SubSeq(x.m, 1, x.e + 1))

(***************************************************************************)
(* compute_pwm_register (lines 130-137).                                   *)
(***************************************************************************)
\* F applied to the value of e, e being evaluated once
Bind(e, F(_)) == CHOOSE r \in {F(x) : x \in {e}} : TRUE

ClampHeartRate(heart_rate_input) ==
    LET hi == IF heart_rate_input > MAX_HR_LIMIT THEN MAX_HR_LIMIT ELSE heart_rate_input
    IN  IF hi < 0 THEN 0 ELSE hi

\* (int)((float)h / 200.0 * 1000) for a clamped h: (float)h is exact for
\* 0 <= h <= 200, the division and the multiplication are carried out in double
ScaleToReload(h) ==
    IF h = 0 THEN 0
    ELSE DoubleToInt(DoubleMul(DoubleDiv(h, MAX_HR_LIMIT), TIMER_RELOAD_VAL))

\* ScaleToReload on every clamped heart rate, evaluated once
ScaleTable == {<<h, ScaleToReload(h)>> : h \in 0..MAX_HR_LIMIT}

compute_pwm_register(heart_rate_input) ==
    Bind(ClampHeartRate(heart_rate_input),
         LAMBDA h : (CHOOSE p \in ScaleTable : p[1] = h)[2])

\* variant of evaluate_alarm_condition: the critical range is tested before
\* the sensor error
EvaluateCriticalFirst(oxygen_sat) ==
    IF oxygen_sat < 90
    THEN [bitmask |-> STATUS_CRITICAL, msg |-> "CRITICAL: Odd Pins ON"]
    ELSE IF oxygen_sat = 0
    THEN [bitmask |-> STATUS_FAILURE, msg |-> "SENSOR ERROR"]
    ELSE IF oxygen_sat < 95
    THEN [bitmask |-> STATUS_WARNING, msg |-> "WARNING: Even Pins ON"]
    ELSE [bitmask |-> STATUS_NORMAL, msg |-> "NORMAL"]

(***************************************************************************)
(* evaluate_alarm_condition (lines 143-164): the returned mask and the     *)
(* text strcpy'd into output_msg.                                          *)
(***************************************************************************)
evaluate_alarm_condition(oxygen_sat) ==
    IF oxygen_sat = 0
    THEN [bitmask |-> STATUS_FAILURE, msg |-> "SENSOR ERROR"]
    ELSE IF oxygen_sat < 90
    THEN [bitmask |-> STATUS_CRITICAL, msg |-> "CRITICAL: Odd Pins ON"]
    ELSE IF oxygen_sat < 95
    THEN [bitmask |-> STATUS_WARNING, msg |-> "WARNING: Even Pins ON"]
    ELSE [bitmask |-> STATUS_NORMAL, msg |-> "NORMAL"]

(***************************************************************************)
(* The input stream.  A file is a sequence of lines; a line is a sequence  *)
(* of characters.  The lines a file may hold:                              *)
(***************************************************************************)
NL == "\n"
Digits == {"0", "1", "2", "3", "4", "5", "6", "7", "8", "9"}
Whitespace == {" ", NL}

Lines ==
    { <<"8", "0", ",", "9", "7">>,          \* 80,97   NORMAL
      <<"2", "5", "0", ",", "9", "2">>,     \* 250,92  WARNING, heart rate above the limit
      <<"6", "0", ",", "0">>,               \* 60,0    SENSOR ERROR
      <<"-", "5", ",", "8", "5">>,          \* -5,85   CRITICAL, negative heart rate
      <<>>,                                 \* blank line
      <<"x">>,                              \* no integer at all
      <<"7", ",">>,                         \* the second integer is missing
      <<"8", "0", ",", "9", "7", ",", "5">> \* 80,97,5 three integers
    }

RecordLines ==
    { <<"8", "0", ",", "9", "7">>, <<"2", "5", "0", ",", "9", "2">>, <<"6", "0", ",", "0">> }

DigitValue(c) ==
    CASE c = "0" -> 0 [] c = "1" -> 1 [] c = "2" -> 2 [] c = "3" -> 3 [] c = "4" -> 4
      [] c = "5" -> 5 [] c = "6" -> 6 [] c = "7" -> 7 [] c = "8" -> 8 [] c = "9" -> 9

RECURSIVE DecimalValue(_, _, _)
\* the number written by the digits s[d], ..., s[k - 1]
DecimalValue(s, d, k) ==
    IF k <= d THEN 0
    ELSE 10 * DecimalValue(s, d, k - 1) + DigitValue(s[k - 1])

\* the first position at or after i whose character is not in set (Len(s)+1 if none)
SkipWhile(s, i, set) ==
    CHOOSE j \in i..(Len(s) + 1) :
        /\ j = Len(s) + 1 \/ s[j] \notin set
        /\ \A k \in i..(j - 1) : s[k] \in set

(***************************************************************************)
(* One %d conversion of fscanf on the characters s from position i: skip   *)
(* white space, an optional sign, then decimal digits up to the first      *)
(* character that is not one.  at_end says that the stream ends after s;   *)
(* without it, running off s means the outcome depends on what follows     *)
(* ("more").                                                               *)
(***************************************************************************)
ScanInt(s, i, at_end) ==
    LET Converted(j, d, k) ==
            IF k > Len(s) /\ ~at_end THEN [status |-> "more"]
            ELSE IF j > Len(s) THEN [status |-> "eof", next |-> j]
            ELSE IF k = d THEN [status |-> "mismatch", next |-> d]
            ELSE [status |-> "ok",
                  val |-> (IF d > j THEN -1 ELSE 1) * DecimalValue(s, d, k),
                  next |-> k]
        AfterSign(j, d) == Bind(SkipWhile(s, d, Digits), LAMBDA k : Converted(j, d, k))
        AfterSpace(j) == Bind(IF j <= Len(s) /\ s[j] = "-" THEN j + 1 ELSE j,
                              LAMBDA d : AfterSign(j, d))
    IN  Bind(SkipWhile(s, i, Whitespace), AfterSpace)

(***************************************************************************)
(* fscanf(data_stream, "%d,%d", &hr_reading, &spo2_reading) (line 73) on   *)
(* the unread characters s.  ret is the value returned, assigned the values *)
(* stored, in order, and rest the characters left unread; more says that   *)
(* the outcome depends on characters beyond s.                             *)
(***************************************************************************)
EOF == -1

fscanf(s, at_end) ==
    LET Second(a, b) ==
            IF b.status = "more" THEN [more |-> TRUE]
            ELSE IF b.status # "ok"
            THEN [more |-> FALSE, ret |-> 1, assigned |-> <<a.val>>,
                  rest |-> SubSeq(s, b.next, Len(s))]
            ELSE [more |-> FALSE, ret |-> 2, assigned |-> <<a.val, b.val>>,
                  rest |-> SubSeq(s, b.next, Len(s))]
        First(a) ==
            IF a.status = "more" THEN [more |-> TRUE]
            ELSE IF a.status = "eof"
            THEN [more |-> FALSE, ret |-> EOF, assigned |-> <<>>, rest |-> <<>>]
            ELSE IF a.status = "mismatch"
            THEN [more |-> FALSE, ret |-> 0, assigned |-> <<>>,
                  rest |-> SubSeq(s, a.next, Len(s))]
            ELSE IF a.next > Len(s) \/ s[a.next] # ","
            THEN [more |-> FALSE, ret |-> 1, assigned |-> <<a.val>>,
                  rest |-> SubSeq(s, a.next, Len(s))]
            ELSE Bind(ScanInt(s, a.next + 1, at_end), LAMBDA b : Second(a, b))
    IN  Bind(ScanInt(s, 1, at_end), First)

(***************************************************************************)
(* What one call of fscanf can find in the file.  The file's content is    *)
(* decided line by line, as the call needs it: unread holds the characters *)
(* already decided and not yet consumed, at_eof says that nothing follows  *)
(* them, n counts the lines decided and c the records processed.  The      *)
(* files of the model: the first VariedLines lines are any of Lines; the   *)
(* file ends there (or earlier), or goes on with well-formed records until *)
(* MaxRecords records have been processed.  The last line may lack its     *)
(* newline.  Each outcome gives the scan, the lines it pulled and whether  *)
(* the file ended.                                                         *)
(***************************************************************************)
LinesAt(n) == IF n < VariedLines THEN Lines ELSE RecordLines

MayEnd(n, c) == n <= VariedLines \/ c >= MaxRecords

RECURSIVE ReadOutcomes(_, _, _, _, _)
ReadOutcomes(s, at_end, n, c, pulled) ==
    IF at_end THEN {[scan |-> fscanf(s, TRUE), at_eof |-> TRUE, pulled |-> pulled]}
    ELSE UNION {
        IF ~r.more THEN {[scan |-> r, at_eof |-> FALSE, pulled |-> pulled]}
        ELSE (IF MayEnd(n, c)
              THEN {[scan |-> fscanf(s, TRUE), at_eof |-> TRUE, pulled |-> pulled]}
              ELSE {})
             \cup
             (IF c >= MaxRecords THEN {}
              ELSE UNION { UNION {
                     ReadOutcomes(t, FALSE, n + 1, c, Append(pulled, l))
                     \cup (IF MayEnd(n + 1, c + 1) /\ l # <<>>
                           THEN {[scan |-> fscanf(u, TRUE), at_eof |-> TRUE,
                                  pulled |-> Append(pulled, l)]}
                           ELSE {})
                     : t \in {s \o l \o <<NL>>}, u \in {s \o l} } : l \in LinesAt(n) })
        : r \in {fscanf(s, FALSE)} }

(***************************************************************************)
(* The status block (lines 90-106).                                        *)
(***************************************************************************)
\* variant of DisplayEligible: the second mark is taken before the counter
\* is incremented
DisplayEligibleStaleCounter(counter, odr) ==
    counter = 1 \/ (counter - 1) % SECOND_MARK = 0 \/ odr # STATUS_NORMAL

DisplayEligible(counter, odr) ==
    LET is_start == counter = 1
        is_second_mark == counter % SECOND_MARK = 0
        is_alarm_active == odr # STATUS_NORMAL
    IN  is_start \/ is_second_mark \/ is_alarm_active

HexDigit(n) ==
    CASE n < 10 -> <<"0", "1", "2", "3", "4", "5", "6", "7", "8", "9">>[n + 1]
      [] n = 10 -> "A" [] n = 11 -> "B" [] n = 12 -> "C"
      [] n = 13 -> "D" [] n = 14 -> "E" [] n = 15 -> "F"

\* %04X of a value below 16^4
Hex4(v) ==
    <<HexDigit(v \div 4096), HexDigit((v \div 256) % 16),
      HexDigit((v \div 16) % 16), HexDigit(v % 16)>>

\* %.3f of the clock.  sys_time_sec is kept as the number of 0.001 steps
\* added to 0.0: the text printed is <seconds>.<three decimals>
FormatTime(steps) == <<steps \div 1000, steps % 1000>>

\* %.1f of (float)ccr / 10.0 for 0 <= ccr <= 1000: <percent>.<one decimal>
FormatDuty(ccr) == <<ccr \div DUTY_DIVISOR, ccr % DUTY_DIVISOR>>

\* variant of StatusBlock: the heart rate shown is the clamped one
StatusBlockClamped(time, hr, spo2, ccr, odr, desc) ==
    [kind |-> "status", time |-> FormatTime(time), bpm |-> ClampHeartRate(hr),
     spo2 |-> spo2, ccr |-> ccr, duty |-> FormatDuty(ccr), odr |-> Hex4(odr),
     desc |-> desc]

StatusBlock(time, hr, spo2, ccr, odr, desc) ==
    [kind |-> "status", time |-> FormatTime(time), bpm |-> hr, spo2 |-> spo2,
     ccr |-> ccr, duty |-> FormatDuty(ccr), odr |-> Hex4(odr), desc |-> desc]

\* variant of AdvanceClock: a step of 0.01
AdvanceClockTenfold(steps) == steps + 10

\* sys_time_sec += 0.001 (line 109), in steps
AdvanceClock(steps) == steps + 1

(***************************************************************************)
(* Record format of the input file: a line is a record when it is exactly  *)
(* <int>,<int>.  Used to tell which lines of the file are well formed.     *)
(***************************************************************************)
IsInteger(s) ==
    LET d == IF Len(s) > 0 /\ s[1] = "-" THEN 2 ELSE 1
    IN  Len(s) >= d /\ \A i \in d..Len(s) : s[i] \in Digits

WellFormedLine(l) ==
    \E i \in 1..Len(l) :
        /\ l[i] = ","
        /\ IsInteger(SubSeq(l, 1, i - 1))
        /\ IsInteger(SubSeq(l, i + 1, Len(l)))

BlankLine(l) == \A i \in 1..Len(l) : l[i] \in Whitespace

RECURSIVE CountLines(_, _)
\* tally <<well-formed lines before the first malformed one, malformed seen>>
\* extended by the lines ls
CountLines(tally, ls) ==
    IF Len(ls) = 0 THEN tally
    ELSE CountLines(
            IF tally[2] \/ BlankLine(ls[1]) THEN tally
            ELSE IF WellFormedLine(ls[1]) THEN <<tally[1] + 1, FALSE>>
            ELSE <<tally[1], TRUE>>,
            Tail(ls))

(***************************************************************************)
(* State.                                                                  *)
(***************************************************************************)
VARIABLES
    pc,             \* main: "start", "loop", "close", "getchar", "exited";
                    \* a function called on its own: "call", "pwm_returned", "alarm_returned"
    data_stream,    \* "unset", "NULL", "open", "closed"
    unread,         \* characters of the file decided and not yet consumed
    at_eof,         \* nothing follows unread in the file
    fscanf_calls,   \* calls of fscanf so far
    fscanf_ret,     \* <<>> before the first call, then <<value the last call returned>>
    lines_read,     \* lines of the file decided so far, counted up to VariedLines + 1
    lines_tally,    \* <<well-formed lines read before the first malformed one, malformed seen>>
    hr_reading, spo2_reading,
    ccr_output, gpio_odr, alarm_desc,
    sys_time_sec,   \* in steps of 0.001
    packet_counter,
    all_normal,     \* every record processed so far had the NORMAL mask
    out,            \* what the last step wrote to standard output
    console,        \* kinds of output written so far
    stdin_ready,    \* a character (or end of input) is waiting on standard input
    exit_code,      \* <<>> while running, <<code>> after return
    opens, closes   \* successful fopen calls, fclose calls

file_vars == <<unread, at_eof, fscanf_calls, fscanf_ret, lines_read, lines_tally>>
locals == <<hr_reading, spo2_reading, ccr_output, gpio_odr, alarm_desc>>
counters == <<sys_time_sec, packet_counter, all_normal>>

vars == <<pc, data_stream, file_vars, locals, counters, out, console, stdin_ready,
          exit_code, opens, closes>>

\* values an uninitialised local may hold (lines 46, 53-55)
Indeterminate == {0, 77}
IndeterminateText == {"", "NORMAL"}

Uninitialised ==
    /\ hr_reading \in Indeterminate
    /\ spo2_reading \in Indeterminate
    /\ ccr_output \in Indeterminate
    /\ gpio_odr \in Indeterminate
    /\ alarm_desc \in IndeterminateText

Untouched ==
    /\ data_stream = "unset"
    /\ unread = <<>>
    /\ at_eof = FALSE
    /\ fscanf_calls = 0
    /\ fscanf_ret = <<>>
    /\ lines_read = 0
    /\ lines_tally = <<0, FALSE>>
    /\ sys_time_sec = 0
    /\ packet_counter = 0
    /\ all_normal = TRUE
    /\ out = <<>>
    /\ console = {}
    /\ stdin_ready = FALSE
    /\ exit_code = <<>>
    /\ opens = 0
    /\ closes = 0

\* entry of main (lines 39-55)
Init ==
    /\ pc = "start"
    /\ Uninitialised
    /\ Untouched

\* variant of FopenFails: the failure path returns 0
FopenFailsReturnsZero ==
    /\ pc = "start"
    /\ data_stream' = "NULL"
    /\ out' = <<[kind |-> "diagnostic"]>>
    /\ console' = console \cup {"diagnostic"}
    /\ exit_code' = <<0>>
    /\ pc' = "exited"
    /\ UNCHANGED <<file_vars, locals, counters, stdin_ready, opens, closes>>

\* fopen fails (lines 58-64)
FopenFails ==
    /\ pc = "start"
    /\ data_stream' = "NULL"
    /\ out' = <<[kind |-> "diagnostic"]>>
    /\ console' = console \cup {"diagnostic"}
    /\ exit_code' = <<1>>
    /\ pc' = "exited"
    /\ UNCHANGED <<file_vars, locals, counters, stdin_ready, opens, closes>>

\* variant of FopenSucceeds: no banner
FopenSucceedsSilently ==
    /\ pc = "start"
    /\ data_stream' = "open"
    /\ opens' = opens + 1
    /\ out' = <<>>
    /\ pc' = "loop"
    /\ UNCHANGED <<file_vars, locals, counters, console, stdin_ready, exit_code,
                   closes>>

\* fopen succeeds, the banner is printed (lines 58-69)
FopenSucceeds ==
    /\ pc = "start"
    /\ data_stream' = "open"
    /\ opens' = opens + 1
    /\ out' = <<[kind |-> "banner"]>>
    /\ console' = console \cup {"banner"}
    /\ pc' = "loop"
    /\ UNCHANGED <<file_vars, locals, counters, stdin_ready, exit_code, closes>>

\* what a call of fscanf does to the stream, with outcome o
Consume(o) ==
    /\ fscanf_calls' = fscanf_calls + 1
    /\ fscanf_ret' = <<o.scan.ret>>
    /\ unread' = o.scan.rest
    /\ at_eof' = o.at_eof
    /\ lines_read' = IF lines_read + Len(o.pulled) > VariedLines THEN VariedLines + 1
                     ELSE lines_read + Len(o.pulled)
    /\ lines_tally' = CountLines(lines_tally, o.pulled)

\* one pass of the loop: fscanf returns 2 (lines 73-110)
LoopIteration ==
    /\ pc = "loop"
    /\ \E o \in ReadOutcomes(unread, at_eof, lines_read, packet_counter, <<>>) :
        /\ o.scan.ret = 2
        /\ Consume(o)
        /\ \E hr \in {o.scan.assigned[1]}, spo2 \in {o.scan.assigned[2]} :
           \E ccr \in {compute_pwm_register(hr)},
              alarm \in {evaluate_alarm_condition(spo2)} :
           LET counter == packet_counter + 1
               show == DisplayEligible(counter, alarm.bitmask)
           IN  /\ hr_reading' = hr
               /\ spo2_reading' = spo2
               /\ ccr_output' = ccr
               /\ gpio_odr' = alarm.bitmask
               /\ alarm_desc' = alarm.msg
               /\ packet_counter' = counter
               /\ out' = IF show
                         THEN <<StatusBlock(sys_time_sec, hr, spo2, ccr,
                                            alarm.bitmask, alarm.msg)>>
                         ELSE <<>>
               /\ console' = IF show THEN console \cup {"status"} ELSE console
               /\ all_normal' = (all_normal /\ alarm.bitmask = STATUS_NORMAL)
    /\ sys_time_sec' = AdvanceClock(sys_time_sec)
    /\ UNCHANGED <<pc, data_stream, stdin_ready, exit_code, opens, closes>>

\* fscanf returns something else: the loop ends (line 73); a first integer
\* that was converted has been stored in hr_reading
LoopExit ==
    /\ pc = "loop"
    /\ \E o \in ReadOutcomes(unread, at_eof, lines_read, packet_counter, <<>>) :
        /\ o.scan.ret # 2
        /\ Consume(o)
        /\ hr_reading' = IF Len(o.scan.assigned) >= 1 THEN o.scan.assigned[1]
                         ELSE hr_reading
    /\ out' = <<>>
    /\ pc' = "close"
    /\ UNCHANGED <<data_stream, spo2_reading, ccr_output, gpio_odr, alarm_desc,
                   counters, console, stdin_ready, exit_code, opens, closes>>

\* variant of CloseAndReport: fclose is forgotten
CloseAndReportLeak ==
    /\ pc = "close"
    /\ out' = <<[kind |-> "completion"], [kind |-> "prompt"]>>
    /\ console' = console \cup {"completion", "prompt"}
    /\ pc' = "getchar"
    /\ UNCHANGED <<data_stream, file_vars, locals, counters, stdin_ready, exit_code,
                   opens, closes>>

\* fclose, the completion notice and the prompt (lines 112-116)
CloseAndReport ==
    /\ pc = "close"
    /\ data_stream' = "closed"
    /\ closes' = closes + 1
    /\ out' = <<[kind |-> "completion"], [kind |-> "prompt"]>>
    /\ console' = console \cup {"completion", "prompt"}
    /\ pc' = "getchar"
    /\ UNCHANGED <<file_vars, locals, counters, stdin_ready, exit_code, opens>>

\* variant of GetCharAndReturn: no getchar, the program returns at once
ReturnWithoutGetChar ==
    /\ pc = "getchar"
    /\ out' = <<>>
    /\ exit_code' = <<0>>
    /\ pc' = "exited"
    /\ UNCHANGED <<data_stream, file_vars, locals, counters, console, stdin_ready,
                   opens, closes>>

\* getchar returns once standard input has something; return 0 (lines 117-118)
GetCharAndReturn ==
    /\ pc = "getchar"
    /\ stdin_ready
    /\ stdin_ready' = FALSE
    /\ out' = <<>>
    /\ exit_code' = <<0>>
    /\ pc' = "exited"
    /\ UNCHANGED <<data_stream, file_vars, locals, counters, console, opens, closes>>

\* the environment: a key is pressed, or standard input reaches its end.
\* Input that arrives earlier waits until getchar, so it is let in there.
StdinArrives ==
    /\ pc = "getchar"
    /\ ~stdin_ready
    /\ stdin_ready' = TRUE
    /\ UNCHANGED <<pc, data_stream, file_vars, locals, counters, out, console,
                   exit_code, opens, closes>>

Program ==
    \/ FopenFails
    \/ FopenSucceeds
    \/ LoopIteration
    \/ LoopExit
    \/ CloseAndReport
    \/ GetCharAndReturn

Next == Program \/ StdinArrives

Spec == Init /\ [][Next]_vars

\* Once the read loop has ended the program runs on whenever it can take a
\* step: it closes and reports as soon as control is there, and returns from
\* getchar as soon as standard input has something.  Standard input owes
\* nothing.
FairSpec == Spec /\ WF_vars(CloseAndReport) /\ WF_vars(GetCharAndReturn)

(***************************************************************************)
(* The two mapping functions called on their own, on every input of        *)
(* FnInputs.                                                               *)
(***************************************************************************)
IntMax == 32767 * 65536 + 65535
IntMin == -IntMax - 1
FnInputs == (-MaxNegInput..MaxInput) \cup {IntMin, IntMax}

InitFn ==
    /\ pc = "call"
    /\ \E x \in FnInputs : hr_reading = x /\ spo2_reading = x
    /\ ccr_output \in Indeterminate
    /\ gpio_odr \in Indeterminate
    /\ alarm_desc \in IndeterminateText
    /\ Untouched

CallPwm ==
    /\ pc = "call"
    /\ ccr_output' = compute_pwm_register(hr_reading)
    /\ pc' = "pwm_returned"
    /\ UNCHANGED <<data_stream, file_vars, hr_reading, spo2_reading, gpio_odr,
                   alarm_desc, counters, out, console, stdin_ready, exit_code,
                   opens, closes>>

CallAlarm ==
    /\ pc = "call"
    /\ gpio_odr' = evaluate_alarm_condition(spo2_reading).bitmask
    /\ alarm_desc' = evaluate_alarm_condition(spo2_reading).msg
    /\ pc' = "alarm_returned"
    /\ UNCHANGED <<data_stream, file_vars, hr_reading, spo2_reading, ccr_output,
                   counters, out, console, stdin_ready, exit_code, opens, closes>>

NextFn == CallPwm \/ CallAlarm

SpecFn == InitFn /\ [][NextFn]_vars

(***************************************************************************)
(* Properties.                                                             *)
(***************************************************************************)
InMain == pc \in {"start", "loop", "close", "getchar", "exited"}

\* a record has just been processed: out is what that pass printed
RecordProcessed == pc = "loop" /\ packet_counter > 0

Printed == out # <<>>

(* C1: for every integer heart rate h, compute_pwm_register(h) is
   round_down(clamp(h, 0, 200) / 200 * 1000): an integer in [0, 1000], 1000
   for h >= 200, 0 for h <= 0, 500 for h = 100, and 5*h for h in 0..200. *)
C1_PwmContract ==
    pc = "pwm_returned" =>
        LET h == hr_reading
            clamped == IF h > 200 THEN 200 ELSE IF h < 0 THEN 0 ELSE h
        IN  /\ ccr_output \in 0..1000
            /\ ccr_output = (clamped * 1000) \div 200
            /\ (h >= 200 => ccr_output = 1000)
            /\ (h <= 0 => ccr_output = 0)
            /\ (h = 100 => ccr_output = 500)
            /\ (h \in 0..200 => ccr_output = 5 * h)

C1_Witness == pc = "pwm_returned" /\ hr_reading = 199 /\ ccr_output = 995

(* C2: evaluate_alarm_condition is total over the integers, first match
   wins: 0xFFFF "SENSOR ERROR" exactly when SpO2 = 0, 0xAAAA "CRITICAL: Odd
   Pins ON" exactly when SpO2 < 90 and SpO2 # 0, 0x5555 "WARNING: Even Pins
   ON" exactly when 90 <= SpO2 < 95, 0x0000 "NORMAL" exactly when SpO2 >= 95;
   the description always matches the mask. *)
C2_AlarmContract ==
    pc = "alarm_returned" =>
        LET s == spo2_reading
        IN  /\ (gpio_odr = 65535 <=> s = 0)
            /\ (gpio_odr = 43690 <=> (s < 90 /\ s # 0))
            /\ (gpio_odr = 21845 <=> (90 <= s /\ s < 95))
            /\ (gpio_odr = 0 <=> s >= 95)
            /\ (alarm_desc = "SENSOR ERROR" <=> gpio_odr = 65535)
            /\ (alarm_desc = "CRITICAL: Odd Pins ON" <=> gpio_odr = 43690)
            /\ (alarm_desc = "WARNING: Even Pins ON" <=> gpio_odr = 21845)
            /\ (alarm_desc = "NORMAL" <=> gpio_odr = 0)

C2_Witness == pc = "alarm_returned" /\ spo2_reading = -3 /\ gpio_odr = 43690

(* C3: the n-th processed record is printed if and only if n = 1, or n is a
   multiple of 1000, or its alarm mask is not 0x0000; in a stream of up to
   2500 records that are all NORMAL exactly records 1, 1000 and 2000 are
   printed. *)
C3_DisplayFilter ==
    RecordProcessed =>
        /\ Printed <=> (\/ packet_counter = 1
                        \/ packet_counter % 1000 = 0
                        \/ gpio_odr # 0)
        /\ (all_normal /\ packet_counter <= 2500) =>
               (Printed <=> packet_counter \in {1, 1000, 2000})

C3_Witness ==
    RecordProcessed /\ all_normal /\ packet_counter = 2000 /\ Printed

(* C4: the simulated clock starts at 0, never decreases, and advances by
   exactly one step of 0.001 per processed sample, after that sample's
   display decision and printing: the n-th record is shown with n-1 steps
   (records 1, 2, 3 show 0.000, 0.001, 0.002) and at every loop head the
   clock equals SampleCounter steps, printed or not. *)
C4_Clock ==
    /\ [](InMain =>
            /\ (pc = "start" => sys_time_sec = 0)
            /\ sys_time_sec = packet_counter
            /\ (RecordProcessed /\ Printed) =>
                   out[1].time = <<(packet_counter - 1) \div 1000,
                                   (packet_counter - 1) % 1000>>)
    /\ [][/\ sys_time_sec' >= sys_time_sec
          /\ (packet_counter' # packet_counter => sys_time_sec' = sys_time_sec + 1)
          /\ (packet_counter' = packet_counter => sys_time_sec' = sys_time_sec)]_vars

C4_Witness ==
    RecordProcessed /\ packet_counter = 3 /\ Printed /\ out[1].time = <<0, 2>>

(* C5: a record that does not parse as exactly two comma-separated integers
   ends the read loop: the records processed are exactly the well-formed
   records that precede the first malformed one, and none at or after it is
   counted, advances the clock or is printed. *)
C5_OnlyWellFormedLinesCount ==
    (InMain /\ opens = 1) =>
        /\ packet_counter <= lines_tally[1]
        /\ (pc # "loop" => packet_counter = lines_tally[1])

(* C6: if the input source cannot be opened the program prints a diagnostic
   and exits with code 1 without entering the loop: nothing is read, counter
   and clock keep their initial values, no status block and no completion
   notice is printed; exit code 1 occurs only on this path, and exit code 0
   only when the source was opened and the read loop ran to its end. *)
C6_OpenFailure ==
    /\ (data_stream = "NULL" =>
            /\ pc = "exited"
            /\ exit_code = <<1>>
            /\ console = {"diagnostic"}
            /\ fscanf_calls = 0
            /\ packet_counter = 0
            /\ sys_time_sec = 0)
    /\ (exit_code = <<1>> => data_stream = "NULL")
    /\ (exit_code = <<0>> =>
            /\ opens = 1
            /\ fscanf_calls > 0
            /\ fscanf_ret # <<2>>)
    /\ (InMain => (pc = "exited" <=> exit_code # <<>>))

C6_Witness == data_stream = "NULL" /\ exit_code = <<1>> /\ out = <<[kind |-> "diagnostic"]>>

\* the file held no record: no line of it was a record or malformed
NoRecords == lines_tally = <<0, FALSE>>

(* C7, as stated: with an input file that opens and holds zero records the
   program exits with code 0 and prints only the completion notice. *)
C7_OnlyCompletionNotice ==
    (exit_code = <<0>> /\ NoRecords) => console = {"completion"}

(* C7, amended: with an input file that opens and holds zero records the
   program exits with code 0 and prints no status block; what it prints is
   the start banner, the completion notice and the exit prompt. *)
C7_EmptyFile ==
    (exit_code = <<0>> /\ NoRecords) =>
        /\ packet_counter = 0
        /\ console = {"banner", "completion", "prompt"}

C7_Witness == exit_code = <<0>> /\ NoRecords /\ lines_read = 0

(* C8, as stated: once the source is exhausted the program eventually prints
   the completion notice and exits with code 0, whatever standard input
   does. *)
C8_ExitsUnaided ==
    (pc = "close") ~> (pc = "exited" /\ exit_code = <<0>>)

(* C8, amended: once the source is exhausted the program closes it, prints
   the completion notice and the prompt, and then waits in getchar: it exits
   only when standard input delivers a character or its end, and then it
   does exit, with code 0. *)
C8_ReportsThenWaits ==
    /\ (pc = "close") ~> (pc = "getchar" /\ "completion" \in console)
    /\ (pc = "getchar" /\ stdin_ready) ~> (pc = "exited" /\ exit_code = <<0>>)
    /\ [][(pc = "getchar" /\ pc' = "exited") => (stdin_ready /\ exit_code' = <<0>>)]_vars

C8_Witness == pc = "getchar" /\ ~stdin_ready /\ "completion" \in console

(* C9: the input source is opened at most once, every read happens while it
   is open, and on every path on which it was opened it is closed exactly
   once, after the last read and before the program exits; on the
   open-failure path nothing is held at exit. *)
C9_StreamLifetime ==
    /\ [](InMain =>
            /\ opens <= 1
            /\ closes <= opens
            /\ (data_stream = "open" <=> (opens = 1 /\ closes = 0))
            /\ (data_stream = "closed" <=> closes = 1)
            /\ (data_stream = "NULL" => (opens = 0 /\ closes = 0))
            /\ (pc = "exited" => data_stream \in {"NULL", "closed"}))
    /\ [][/\ (fscanf_calls' # fscanf_calls =>
                 (data_stream = "open" /\ data_stream' = "open"))
          /\ (closes >= 1 => (fscanf_calls' = fscanf_calls /\ closes' = closes))]_vars

C9_Witness == pc = "exited" /\ closes = 1 /\ opens = 1 /\ fscanf_calls >= 2

(* C10: no cross-sample state beyond clock and counter: the display decision
   and the block printed for record n depend only on n and the record's
   (heart rate, SpO2) pair; the PWM value, mask and description shown are
   those computed from that record, and the heart rate and SpO2 shown are
   the values as read, unclamped. *)
C10_NoCrossSampleState ==
    RecordProcessed =>
        LET alarm == evaluate_alarm_condition(spo2_reading)
            ccr == compute_pwm_register(hr_reading)
        IN  /\ ccr_output = ccr
            /\ gpio_odr = alarm.bitmask
            /\ alarm_desc = alarm.msg
            /\ Printed <=> DisplayEligible(packet_counter, alarm.bitmask)
            /\ Printed =>
                   /\ Len(out) = 1
                   /\ out[1].time = FormatTime(packet_counter - 1)
                   /\ out[1].bpm = hr_reading
                   /\ out[1].spo2 = spo2_reading
                   /\ out[1].ccr = ccr
                   /\ out[1].duty = FormatDuty(ccr)
                   /\ out[1].odr = Hex4(alarm.bitmask)
                   /\ out[1].desc = alarm.msg

C10_Witness ==
    /\ RecordProcessed /\ packet_counter >= 2 /\ Printed
    /\ out[1].bpm = 250 /\ out[1].ccr = 1000 /\ out[1].odr = <<"5", "5", "5", "5">>
=============================================================================
